---- MODULE Spec2Model ----
(***************************************************************************)
(* Solar insight explorer backend: document parsing (proposal / utility    *)
(* bill), the three estimation adapters, and the analysis service that     *)
(* creates and finalises Result documents.                                 *)
(*                                                                         *)
(* The repository carries two implementations of several files.  The model *)
(* keeps both and fixes which one is deployed in Init:                     *)
(*   engine     "part_007" | "part_008"      (AnalysisService)             *)
(*   srecImpl   "srecTradeService.js" | "part_010"  (SrecTradeService)     *)
(*   billImpl   "utilityBillParser.js" | "part_011" (parseUtilityBillPdf)  *)
(*                                                                         *)
(* Storage is a keyed store: a stored document is the object handed to     *)
(* create / update, so reading a member of an extractedData that was never *)
(* stored throws a TypeError.  A store request made after the pending      *)
(* record exists (the user lookup, the final update) may reject.  A text   *)
(* is represented by what each pattern extractor returns on it.            *)
(* Math.random() is a choice from a small set.  Money is kept in cents,    *)
(* rates in cents per kWh, tons of CO2 in hundredths.                      *)
(***************************************************************************)
EXTENDS Integers, Sequences, FiniteSets, TLC

\* ---------------------------------------------------------------- bounds
MaxProposals == 1
MaxBills     == 1
MaxResults   == 2

\* ---------------------------------------------------------------- values
\* JavaScript null / undefined of a scalar field
Null == -1
\* JavaScript null / undefined where an object is expected
NullObj == [isNull |-> TRUE]

\* NaN (arithmetic on undefined) and Infinity (division by zero)
NaN == -2
Infinity == -3
\* !x is false: x is neither null/undefined, nor 0, nor NaN
Truthy(x) == x # Null /\ x # 0 /\ x # NaN

\* a || b on scalars
OrElse(a, b) == IF Truthy(a) THEN a ELSE b

Users == {"u1", "u2"}
Calls == {"g1", "g2"}

Engines   == {"part_007", "part_008"}
SrecImpls == {"srecTradeService.js", "part_010"}
BillImpls == {"utilityBillParser.js", "part_011"}

\* Math.round(n / d) for n >= 0, d > 0
RoundDiv(n, d) == (2 * n + d) \div (2 * d)

MonthIdx == 1..12

RECURSIVE SumSeq(_)
SumSeq(s) == IF s = <<>> THEN 0 ELSE Head(s) + SumSeq(Tail(s))

VARIABLES
  engine,        \* which AnalysisService is deployed
  srecImpl,      \* which SrecTradeService is deployed
  billImpl,      \* which parseUtilityBillPdf is deployed
  proposals,     \* Proposal collection, in insertion order (_id = index)
  utilityBills,  \* UtilityBill collection, in insertion order
  results,       \* Result collection, in insertion order
  call,          \* per generateResults invocation: position and locals
  lastParse,     \* inputs and output of the most recent parse* call
  lastAdapter,   \* adapter, outcome and response of the most recent direct adapter call
  lastEnv        \* response of the most recent request on one result

vars == <<engine, srecImpl, billImpl, proposals, utilityBills, results,
          call, lastParse, lastAdapter, lastEnv>>

\* ------------------------------------------------------- document parsing
\* A document text is the map of what each pattern extractor finds in it.
\* Values found by the patterns and by the AI tier (fixed samples):
SampleSystemSize == 6
SampleProduction == 8000
SampleUsage      == 900
SampleRateCents  == 20

FullPricing == [totalCost |-> 20000, federalTaxCredit |-> 6000,
                stateRebates |-> 1000, netCost |-> 13000]
\* extractPricingDetails matched only the total cost pattern
PartialPricing == [totalCost |-> 20000]
\* an AI answer {"pricing": {"totalCost": null, ...}}
NullMemberPricing == [totalCost |-> Null, federalTaxCredit |-> Null,
                      stateRebates |-> Null, netCost |-> Null]

\* Math.random(): the low end and the high end of each range
Rand == {0, 1}

\* pdfParser.js 326-363 and 399-408: the synthesized values
SynthSystemSize(rnd) == 5 + 10 * rnd
SynthProduction(systemSize, rnd) == systemSize * (1300 + 299 * rnd)
SynthPricing(systemSize, rnd) ==
  LET totalCost == systemSize * 100 * (25 + 15 * rnd)
      federalTaxCredit == RoundDiv(totalCost * 30, 100)
      stateRebates == RoundDiv(totalCost * (10 * rnd), 100)
  IN [totalCost |-> totalCost, federalTaxCredit |-> federalTaxCredit,
      stateRebates |-> stateRebates,
      netCost |-> totalCost - federalTaxCredit - stateRebates]

\* What the proposal patterns return on a text: nothing, the size alone, all
ProposalTexts ==
  [systemSize : {Null, SampleSystemSize},
   estimatedProduction : {Null},
   pricing : {NullObj}]
  \cup { [systemSize |-> SampleSystemSize, estimatedProduction |-> SampleProduction,
          pricing |-> FullPricing] }

\* What openAiService.extractProposalData returns: null or the parsed JSON
AiProposalAnswers ==
  { NullObj,
    [systemSize |-> SampleSystemSize, estimatedProduction |-> SampleProduction,
     pricing |-> FullPricing],
    [systemSize |-> Null, estimatedProduction |-> SampleProduction,
     pricing |-> NullMemberPricing] }

NoProposalMatch == [systemSize |-> Null, estimatedProduction |-> Null, pricing |-> NullObj]
FullProposalMatch == [systemSize |-> SampleSystemSize,
                      estimatedProduction |-> SampleProduction, pricing |-> FullPricing]

\* parseProposalPdf, catch block: everything synthesized
ProposalFallback(rnd) ==
  LET systemSize == SynthSystemSize(rnd)
  IN [systemSize |-> systemSize,
      estimatedProduction |-> SynthProduction(systemSize, rnd),
      pricing |-> SynthPricing(systemSize, rnd),
      dataSource |-> "fallback-generation",
      generatedFromError |-> TRUE]

\* dataSource flag of parseProposalPdf / parseUtilityBillPdf (part_011)
DataSourceTag(openAiData) ==
  IF openAiData # NullObj THEN "openai" ELSE "pattern-extraction"

\* parseProposalPdf: textOk is whether extractTextFromPdf returned a text
parseProposalPdf(textOk, openAiData, text, rnd) ==
  IF ~textOk THEN ProposalFallback(rnd)
  ELSE
    LET size0 == IF openAiData # NullObj THEN openAiData.systemSize ELSE text.systemSize
        prod0 == IF openAiData # NullObj THEN openAiData.estimatedProduction
                 ELSE text.estimatedProduction
        price0 == IF openAiData # NullObj THEN openAiData.pricing ELSE text.pricing
        systemSize == IF ~Truthy(size0) THEN SynthSystemSize(rnd) ELSE size0
        estimatedProduction ==
          IF ~Truthy(prod0) THEN SynthProduction(systemSize, rnd) ELSE prod0
        pricing == IF price0 = NullObj THEN SynthPricing(systemSize, rnd) ELSE price0
    IN [systemSize |-> systemSize,
        estimatedProduction |-> estimatedProduction,
        pricing |-> pricing,
        dataSource |-> DataSourceTag(openAiData),
        generatedFromError |-> FALSE]

\* ---- utility bills
BillTexts ==
  { [utilityCompany |-> c, billingPeriod |-> c, accountNumber |-> c,
     totalAmount |-> a, energyUsage |-> u, rate |-> Null] :
       c \in {Null, 1}, a \in {Null, 18000}, u \in {Null, SampleUsage} }
  \cup { [utilityCompany |-> 1, billingPeriod |-> 1, accountNumber |-> 1,
          totalAmount |-> 18000, energyUsage |-> SampleUsage,
          rate |-> SampleRateCents] }

AiBillAnswers ==
  { NullObj,
    [utilityCompany |-> 1, billingPeriod |-> 1, accountNumber |-> 1,
     totalAmount |-> 18000, energyUsage |-> SampleUsage, rate |-> SampleRateCents],
    [utilityCompany |-> 1, billingPeriod |-> Null, accountNumber |-> Null,
     totalAmount |-> 18000, energyUsage |-> Null, rate |-> Null] }

NoBillMatch == [utilityCompany |-> Null, billingPeriod |-> Null, accountNumber |-> Null,
                totalAmount |-> Null, energyUsage |-> Null, rate |-> Null]
FullBillMatch == [utilityCompany |-> 1, billingPeriod |-> 1, accountNumber |-> 1,
                  totalAmount |-> 18000, energyUsage |-> SampleUsage,
                  rate |-> SampleRateCents]

\* residential usage distribution, percent of the annual usage per month
UsageDistribution == <<10, 9, 8, 7, 7, 8, 10, 10, 8, 7, 8, 8>>

\* estimateMonthlyEnergyUsage: null for a falsy annual usage
estimateMonthlyEnergyUsage(annualUsage) ==
  IF ~Truthy(annualUsage) THEN NullObj
  ELSE [m \in MonthIdx |-> RoundDiv(annualUsage * UsageDistribution[m], 100)]

\* extractElectricityRate: the rate pattern, else totalAmount / usage (here in cents)
extractElectricityRate(text) ==
  IF text.rate # Null THEN text.rate
  ELSE IF Truthy(text.energyUsage) /\ Truthy(text.totalAmount)
       THEN RoundDiv(text.totalAmount, text.energyUsage)
       ELSE Null

\* the six pattern extractors applied to one text
ExtractBillFields(text) ==
  [utilityCompany |-> text.utilityCompany, billingPeriod |-> text.billingPeriod,
   accountNumber |-> text.accountNumber, totalAmount |-> text.totalAmount,
   energyUsage |-> text.energyUsage, rate |-> extractElectricityRate(text)]

\* parseUtilityBillImage / parseUtilityBillPdf of utilityBillParser.js: the pattern
\* results as they are; a failed text extraction is rethrown (the "thrown" result)
Thrown == [thrown |-> TRUE]

parseUtilityBillImage(textOk, text) ==
  IF ~textOk THEN Thrown ELSE ExtractBillFields(text)

parseUtilityBillPdfPlain(textOk, text) ==
  IF ~textOk THEN Thrown ELSE ExtractBillFields(text)

SynthUsage(rnd) == 500 + 999 * rnd
SynthRateCents(rnd) == 12 + 23 * rnd

\* parseUtilityBillPdf of part_011: AI, else patterns, then synthesis of what is falsy
parseUtilityBillPdfTiered(textOk, openAiData, text, rnd) ==
  IF ~textOk
  THEN LET energyUsage == SynthUsage(rnd)
           rate == SynthRateCents(rnd)
       IN [utilityCompany |-> 2, billingPeriod |-> 2, accountNumber |-> 2,
           totalAmount |-> energyUsage * rate, energyUsage |-> energyUsage,
           rate |-> rate,
           monthlyUsage |-> estimateMonthlyEnergyUsage(energyUsage * 12),
           dataSource |-> "fallback-generation", generatedFromError |-> TRUE]
  ELSE
    LET got == IF openAiData # NullObj THEN openAiData ELSE ExtractBillFields(text)
        energyUsage == IF ~Truthy(got.energyUsage) THEN SynthUsage(rnd) ELSE got.energyUsage
        rate == IF ~Truthy(got.rate) THEN SynthRateCents(rnd) ELSE got.rate
    IN [utilityCompany |-> IF ~Truthy(got.utilityCompany) THEN 2 ELSE got.utilityCompany,
        billingPeriod |-> IF got.billingPeriod = Null THEN 2 ELSE got.billingPeriod,
        accountNumber |-> IF ~Truthy(got.accountNumber) THEN 2 ELSE got.accountNumber,
        totalAmount |-> IF ~Truthy(got.totalAmount) THEN energyUsage * rate
                        ELSE got.totalAmount,
        energyUsage |-> energyUsage,
        rate |-> rate,
        monthlyUsage |-> estimateMonthlyEnergyUsage(energyUsage * 12),
        dataSource |-> DataSourceTag(openAiData), generatedFromError |-> FALSE]

\* the parseUtilityBillPdf that is deployed
parseUtilityBillPdf(textOk, openAiData, text, rnd) ==
  IF billImpl = "part_011"
  THEN parseUtilityBillPdfTiered(textOk, openAiData, text, rnd)
  ELSE parseUtilityBillPdfPlain(textOk, text)

\* obj.field of a JavaScript object: undefined when the object has no such field
Get(obj, field) == IF field \in DOMAIN obj THEN obj[field] ELSE Null
GetObj(obj, field) == IF field \in DOMAIN obj THEN obj[field] ELSE NullObj

\* ------------------------------------------------------ document records
\* processProposal: parseProposalPdf never rethrows, so the record is 'processed'
processProposal(userId, textOk, openAiData, text, rnd) ==
  [user |-> userId, status |-> "processed",
   extractedData |-> parseProposalPdf(textOk, openAiData, text, rnd),
   processingErrors |-> <<>>]

FileTypes == {"pdf", "image"}

\* processUtilityBill: the parser by file type; a thrown parse gives an 'error' record
processUtilityBill(userId, fileType, textOk, openAiData, text, rnd) ==
  LET extractedData == IF fileType = "pdf"
                       THEN parseUtilityBillPdf(textOk, openAiData, text, rnd)
                       ELSE parseUtilityBillImage(textOk, text)
  IN IF extractedData = Thrown
     THEN [user |-> userId, fileType |-> fileType, status |-> "error",
           extractedData |-> NullObj,
           processingErrors |-> <<"Failed to parse utility bill">>]
     ELSE [user |-> userId, fileType |-> fileType, status |-> "processed",
           extractedData |-> extractedData, processingErrors |-> <<>>]

\* ---------------------------------------------------- estimation adapters
\* What happens to the live request of an adapter call:
\*   ok         the service answers with the documented body
\*   malformed  the service answers 200 with a body lacking the documented members
\*   fail       the request throws (timeout, network, auth)
\*   nokey      the credential is not configured
Outcomes == {"ok", "malformed", "fail", "nokey"}

Malformed == [malformed |-> TRUE]

NoState == ""
States == {"NJ", "TX", "DE"}

\* req.body.location / user.location: null, or coordinates and a state code;
\* coordinates are in hundredths of a degree, longitudes as magnitudes (west)
NoLocation == NullObj
Locations ==
  { [coordinates |-> [latitude |-> 4000, longitude |-> 7500], state |-> "NJ"],
    [coordinates |-> [latitude |-> 3000, longitude |-> 9700], state |-> "TX"],
    [coordinates |-> [latitude |-> 3900, longitude |-> 7500], state |-> "DE"],
    [coordinates |-> NullObj, state |-> NoState] }

\* ---- roof potential (googleSunroofService)
MockCarbonFactor == 680

_getMockSolarPotential(latitude, longitude) ==
  [mock |-> TRUE,
   center |-> [latitude |-> latitude, longitude |-> longitude],
   roofSegmentStats |-> <<[pitchDegrees |-> 25, azimuthDegrees |-> 180],
                          [pitchDegrees |-> 15, azimuthDegrees |-> 90]>>,
   solarPotential |-> [maxCapacityKw |-> 14, panelCapacityWatts |-> 250,
                       yearlyEnergyDcKwh |-> 15000,
                       carbonOffsetFactorKgPerMwh |-> MockCarbonFactor]]

LiveSolarPotential(latitude, longitude) ==
  [mock |-> FALSE,
   center |-> [latitude |-> latitude, longitude |-> longitude],
   roofSegmentStats |-> <<[pitchDegrees |-> 30, azimuthDegrees |-> 170]>>,
   solarPotential |-> [maxCapacityKw |-> 9, panelCapacityWatts |-> 400,
                       yearlyEnergyDcKwh |-> 12000,
                       carbonOffsetFactorKgPerMwh |-> 520]]

getSolarPotential(latitude, longitude, outcome) ==
  IF ~Truthy(latitude) \/ ~Truthy(longitude) \/ outcome \in {"nokey", "fail"}
  THEN [success |-> FALSE, data |-> _getMockSolarPotential(latitude, longitude)]
  ELSE [success |-> TRUE,
        data |-> IF outcome = "ok" THEN LiveSolarPotential(latitude, longitude)
                 ELSE Malformed]

\* ---- production simulation (pvWattsService)
BaseAnnualProduction == 1400
\* monthlyDistribution, in thousandths
ProductionDistribution == <<63, 74, 87, 97, 102, 101, 102, 99, 93, 80, 65, 57>>

_getMockSolarProduction(systemCapacity) ==
  LET acAnnual == IF systemCapacity = Null THEN NaN
                  ELSE systemCapacity * BaseAnnualProduction
  IN [inputs |-> [system_capacity |-> systemCapacity],
      outputs |-> [ac_annual |-> acAnnual,
                   ac_monthly |-> [m \in MonthIdx |->
                      IF acAnnual = NaN THEN NaN
                      ELSE RoundDiv(acAnnual * ProductionDistribution[m], 1000)],
                   capacity_factor |-> 16]]

LiveSolarProduction(systemCapacity) ==
  [inputs |-> [system_capacity |-> systemCapacity],
   outputs |-> [ac_annual |-> systemCapacity * 1500,
                ac_monthly |-> [m \in MonthIdx |-> systemCapacity * 125],
                capacity_factor |-> 17]]

getSolarProduction(systemCapacity, latitude, longitude, outcome) ==
  IF ~Truthy(systemCapacity) \/ ~Truthy(latitude) \/ ~Truthy(longitude)
     \/ outcome \in {"nokey", "fail"}
  THEN [success |-> TRUE, data |-> _getMockSolarProduction(systemCapacity)]
  ELSE [success |-> TRUE,
        data |-> IF outcome = "ok" THEN LiveSolarProduction(systemCapacity)
                 ELSE Malformed]

formatSolarProduction(pvWattsResponse) ==
  IF "outputs" \notin DOMAIN pvWattsResponse THEN NullObj
  ELSE [systemCapacity |-> pvWattsResponse.inputs.system_capacity,
        annualProduction |-> pvWattsResponse.outputs.ac_annual,
        monthlyProduction |-> pvWattsResponse.outputs.ac_monthly,
        capacityFactor |-> pvWattsResponse.outputs.capacity_factor]

\* ---- incentive lookup (srecTradeService)
MockSrecRate(state) ==
  CASE state = "MA" -> 275 [] state = "NJ" -> 225 [] state = "DC" -> 435
    [] state = "MD" -> 75  [] state = "PA" -> 40  [] state = "OH" -> 15
    [] state = "DE" -> 35  [] state = "IL" -> 70  [] OTHER -> 0

MockSrecEligible(state) == state \in {"MA", "NJ", "DC", "MD", "PA", "OH", "DE", "IL"}

\* (annualProduction / 1000) * rate, rounded
SrecValue(annualProduction, rate) ==
  IF annualProduction \in {Null, NaN} THEN NaN
  ELSE RoundDiv(annualProduction * rate, 1000)

_getMockSrecIncentives(state, systemCapacity, annualProduction) ==
  LET isEligible == MockSrecEligible(state)
  IN [state |-> state,
      system_capacity_kw |-> systemCapacity,
      annual_production_kwh |-> annualProduction,
      srec_eligible |-> isEligible,
      srec_rate |-> IF isEligible THEN MockSrecRate(state) ELSE 0,
      estimated_annual_srec_value |->
        IF isEligible THEN SrecValue(annualProduction, MockSrecRate(state)) ELSE 0,
      srec_program_details |->
        IF isEligible THEN "SREC Program - Current market price"
        ELSE "Not eligible for SREC incentives"]

\* the body the live service documents: the shape the mock mirrors
LiveSrecIncentives(state, systemCapacity, annualProduction) ==
  [state |-> state,
   system_capacity_kw |-> systemCapacity,
   annual_production_kwh |-> annualProduction,
   srec_eligible |-> MockSrecEligible(state),
   srec_rate |-> IF MockSrecEligible(state) THEN 200 ELSE 0,
   estimated_annual_srec_value |->
     IF MockSrecEligible(state) THEN SrecValue(annualProduction, 200) ELSE 0,
   srec_program_details |-> "live program details"]

DefaultCapacity == 10
DefaultProduction == 14000

\* srecTradeService.js: every failure answers success=true with the mock
getSrecIncentivesMasking(state, systemCapacity, annualProduction, outcome) ==
  LET capacity == OrElse(systemCapacity, DefaultCapacity)
      production == OrElse(annualProduction, capacity * BaseAnnualProduction)
  IN IF state = NoState \/ outcome = "fail"
     THEN [success |-> TRUE,
           data |-> _getMockSrecIncentives(state, OrElse(systemCapacity, DefaultCapacity),
                                           OrElse(annualProduction, DefaultProduction))]
     ELSE IF outcome = "nokey"
     THEN [success |-> TRUE, data |-> _getMockSrecIncentives(state, capacity, production)]
     ELSE [success |-> TRUE,
           data |-> IF outcome = "ok"
                    THEN LiveSrecIncentives(state, capacity, production)
                    ELSE Malformed]

\* part_010: a failure answers success=false, the mock attached as data
getSrecIncentivesReporting(state, systemCapacity, annualProduction, outcome) ==
  IF state = NoState \/ outcome \in {"nokey", "fail"}
  THEN [success |-> FALSE,
        data |-> _getMockSrecIncentives(state, systemCapacity, annualProduction)]
  ELSE [success |-> TRUE,
        data |-> IF outcome = "ok"
                 THEN LiveSrecIncentives(state, systemCapacity, annualProduction)
                 ELSE Malformed]

\* the getSrecIncentives that is deployed
getSrecIncentives(state, systemCapacity, annualProduction, outcome) ==
  IF srecImpl = "part_010"
  THEN getSrecIncentivesReporting(state, systemCapacity, annualProduction, outcome)
  ELSE getSrecIncentivesMasking(state, systemCapacity, annualProduction, outcome)

\* ------------------------------------------------------- analysis service
Coord(lat, lon) == [latitude |-> lat, longitude |-> lon]

\* User.findById(userId).location
UserLocation(userId) ==
  IF userId = "u2"
  THEN [coordinates |-> [latitude |-> 4000, longitude |-> 7500], state |-> "NJ"]
  ELSE NoLocation

\* coordinates && coordinates.latitude && coordinates.longitude
HasCoordinates(coordinates) ==
  /\ coordinates # NullObj
  /\ Truthy(coordinates.latitude)
  /\ Truthy(coordinates.longitude)

\* the second argument as it is, no lower bound applied
Unclamped(a, b) == b

\* Math.max(a, b)
Max(a, b) == IF a >= b THEN a ELSE b

\* ---- part_007: location resolution, lines 162-184
FallbackLatitude == 4071
FallbackLongitude == 7400

ResolveLocationDynamic(locationData, userId, rnd) ==
  IF locationData # NullObj
  THEN [coordinates |-> locationData.coordinates, state |-> locationData.state]
  ELSE IF UserLocation(userId) # NoLocation
  THEN [coordinates |-> UserLocation(userId).coordinates,
        state |-> UserLocation(userId).state]
  ELSE [coordinates |-> Coord(FallbackLatitude - 5 + 10 * rnd,
                              FallbackLongitude - 5 + 10 * rnd),
        state |-> "NY"]

\* ---- part_008: location resolution, lines 161-176
ResolveLocationBasic(locationData, userId) ==
  IF locationData # NullObj
  THEN [coordinates |-> locationData.coordinates, state |-> locationData.state]
  ELSE IF UserLocation(userId) # NoLocation
  THEN [coordinates |-> UserLocation(userId).coordinates,
        state |-> UserLocation(userId).state]
  ELSE [coordinates |-> NullObj, state |-> NoState]

\* ---- part_007: _generateSolarPotentialData
_generateSolarPotentialData(systemSize, coordinates, outcome, rnd) ==
  LET own == [roofSegmentSummary |-> [Optimal |-> systemSize * 700,
                                      Good |-> systemSize * 200,
                                      Suboptimal |-> systemSize * 100],
              solarPotential |-> systemSize * BaseAnnualProduction,
              panelCapacityWatts |-> systemSize * 1000,
              carbonOffsetFactorKgPerMwh |-> 450 + 99 * rnd]
  IN IF HasCoordinates(coordinates)
     THEN LET sunroofResult ==
                getSolarPotential(coordinates.latitude, coordinates.longitude, outcome)
          IN IF sunroofResult.success THEN sunroofResult.data ELSE own
     ELSE own

\* ---- part_007: _generateSolarProductionData
_generateSolarProductionData(systemSize, coordinates, outcome) ==
  LET annualProduction == systemSize * BaseAnnualProduction
      own == [annualProduction |-> annualProduction,
              monthlyProduction |-> [m \in MonthIdx |->
                 RoundDiv(annualProduction * ProductionDistribution[m], 1000)],
              capacityFactor |-> RoundDiv(annualProduction * 1000, systemSize * 8760)]
  IN IF Truthy(systemSize) /\ HasCoordinates(coordinates)
     THEN LET pvWattsResult ==
                getSolarProduction(systemSize, coordinates.latitude,
                                   coordinates.longitude, outcome)
          IN IF pvWattsResult.success THEN formatSolarProduction(pvWattsResult.data)
             ELSE own
     ELSE own

\* ---- part_007: _generateSrecIncentivesData
EngineSrecEligible(state) == state \in {"MA", "NJ", "PA", "MD", "DC", "OH", "IL"}

\* the market rate drawn for a state, in tenths of a dollar: Math.random() is 0
\* or 0.994
EngineSrecRate(state, rnd) ==
  CASE state = "MA" -> 2000 + 994 * rnd [] state = "NJ" -> 1800 + 795 * rnd
    [] state = "PA" -> 300 + 199 * rnd  [] state = "MD" -> 700 + 298 * rnd
    [] state = "DC" -> 3500 + 1491 * rnd [] OTHER -> 500 + 497 * rnd

_generateSrecIncentivesData(state, systemSize, annualProduction, outcome, rnd) ==
  LET srecEligible == EngineSrecEligible(state)
      srecRate == IF srecEligible THEN EngineSrecRate(state, rnd) ELSE 0
      \* the value is computed from the unrounded rate, the rate is stored rounded
      own == [srecEligible |-> srecEligible,
              srecRate |-> IF srecEligible THEN RoundDiv(srecRate, 10) ELSE 0,
              estimatedAnnualSrecValue |->
                IF ~srecEligible THEN 0
                ELSE IF annualProduction \in {Null, NaN} THEN NaN
                ELSE RoundDiv(annualProduction * srecRate, 10000),
              srecProgramDetails |->
                IF srecEligible THEN "SREC program offers credits"
                ELSE "does not currently have an active SREC market"]
  IN IF state # NoState /\ Truthy(systemSize)
     THEN LET srecResult == getSrecIncentives(state, systemSize, annualProduction, outcome)
          IN IF srecResult.success THEN srecResult.data ELSE own
     ELSE own

\* ---- part_007: _generateEnvironmentalImpactData
DefaultCarbonFactor == 680

\* openAiService.calculateEnvironmentalImpact: null, or the model's JSON tagged openai
AiImpact == [carbonOffsetAnnual |-> 700, carbonOffsetLifetime |-> 17500,
             treesPlantedEquivalent |-> 300, milesNotDrivenEquivalent |-> 17000,
             coalNotBurnedPounds |-> 9000, carbonOffsetFactorKgPerMwh |-> 700,
             carbonCalculationExplanation |-> "model", dataSource |-> "openai"]

\* the answers tried: none, a consistent one, and one whose lifetime figure
\* allows for panel degradation (the JSON is returned as the model wrote it)
AiImpactAnswers ==
  {NullObj, AiImpact, [AiImpact EXCEPT !.carbonOffsetLifetime = 15000]}

\* the system-calculated figures; tons are kept in hundredths
SystemImpact(estimatedProduction, factor) ==
  [carbonOffsetAnnual |-> RoundDiv(estimatedProduction * (factor \div 10), 1000),
   carbonOffsetLifetime |-> RoundDiv(estimatedProduction * (factor \div 10) * 25, 1000),
   treesPlantedEquivalent |-> RoundDiv((estimatedProduction \div 100) * factor * 45, 10000),
   milesNotDrivenEquivalent |-> RoundDiv((estimatedProduction \div 100) * factor * 25, 100),
   coalNotBurnedPounds |-> RoundDiv(estimatedProduction * 9, 10),
   carbonOffsetFactorKgPerMwh |-> factor,
   estimatedProduction |-> estimatedProduction,
   dataSource |-> "system-calculated",
   carbonCalculationExplanation |-> "standard industry factors"]

_generateEnvironmentalImpactData(openAiData, estimatedProduction, coordinates, outcome) ==
  IF openAiData # NullObj THEN openAiData
  ELSE
    LET sunroofResponse ==
          IF HasCoordinates(coordinates)
          THEN getSolarPotential(coordinates.latitude, coordinates.longitude, outcome)
          ELSE [success |-> FALSE, data |-> NullObj]
        found == IF sunroofResponse.success
                 THEN Get(GetObj(sunroofResponse.data, "solarPotential"),
                          "carbonOffsetFactorKgPerMwh")
                 ELSE Null
    IN SystemImpact(estimatedProduction, OrElse(found, DefaultCarbonFactor))

\* ---- part_007: _generateMonthlyUsage (the same table as estimateMonthlyEnergyUsage)
_generateMonthlyUsage(annualUsage) ==
  [m \in MonthIdx |-> RoundDiv(annualUsage * UsageDistribution[m], 100)]

\* ---- part_007: _generateMonthlyBreakdown; rates in cents per kWh, money in cents
_generateMonthlyBreakdown(solarProduction, monthlyUsage, electricityRate) ==
  [m \in MonthIdx |->
     LET usage == OrElse(monthlyUsage[m], 0)
         production == IF solarProduction = NullObj THEN 0
                       ELSE OrElse(solarProduction.monthlyProduction[m], 0)
         gridConsumption == Max(0, usage - production)
         utilityBillWithoutSolar == usage * electricityRate
         utilityBillWithSolar == gridConsumption * electricityRate
     IN [month |-> m,
         solarProduction |-> production,
         gridConsumption |-> gridConsumption,
         utilityBillWithSolar |-> utilityBillWithSolar,
         utilityBillWithoutSolar |-> utilityBillWithoutSolar,
         savings |-> utilityBillWithoutSolar - utilityBillWithSolar]]

\* ---- part_007: _calculateSolarSavings
\* sum over 20 years of 1.025^year, in thousandths
InflationSumMilli == 25545

\* Math.round of the inflated sum, in whole dollars
TwentyYear(annualSavings) ==
  RoundDiv((annualSavings \div 100) * InflationSumMilli
           + ((annualSavings % 100) * InflationSumMilli) \div 100, 1000)

\* systemCost / annualSavings to one decimal, in tenths of a year
Payback(systemCost, annualSavings) ==
  IF systemCost = NaN THEN NaN
  ELSE IF annualSavings = 0
       THEN (IF systemCost \in {0, Null} THEN NaN ELSE Infinity)
  ELSE IF systemCost = Null THEN 0
  ELSE RoundDiv(systemCost * 1000, annualSavings)

_calculateSolarSavings(monthlyBreakdown, systemCost) ==
  LET annualSavings == SumSeq([m \in MonthIdx |-> monthlyBreakdown[m].savings])
  IN [monthlySavings |-> RoundDiv(annualSavings, 12),
      annualSavings |-> annualSavings,
      twentyYearSavings |-> 100 * TwentyYear(annualSavings),
      paybackPeriod |-> Payback(systemCost, annualSavings)]

\* proposal.extractedData.pricing ? pricing.netCost : systemSize * 3000
SystemCostDynamic(pricing, systemSize) ==
  IF pricing = NullObj THEN systemSize * 3000
  ELSE IF "netCost" \in DOMAIN pricing THEN pricing.netCost
  ELSE NaN

\* ---- part_007 generateResults, lines 157-230: the update written on success
AnalyseDynamic(proposal, utilityBill, location, sunroof, pvWatts, srec, aiImpact, rnd) ==
  LET systemSize == OrElse(proposal.extractedData.systemSize, 10)
      estimatedProduction == proposal.extractedData.estimatedProduction
      energyUsage == OrElse(utilityBill.extractedData.energyUsage, 1000)
      electricityRate == OrElse(utilityBill.extractedData.rate, 15)
      coordinates == location.coordinates
      solarPotential == _generateSolarPotentialData(systemSize, coordinates, sunroof, rnd)
      solarProduction == _generateSolarProductionData(systemSize, coordinates, pvWatts)
      production ==
        IF Truthy(estimatedProduction) THEN estimatedProduction
        ELSE IF solarProduction # NullObj THEN solarProduction.annualProduction
        ELSE systemSize * BaseAnnualProduction
      srecIncentives ==
        _generateSrecIncentivesData(location.state, systemSize, production, srec, rnd)
      environmentalImpact ==
        _generateEnvironmentalImpactData(aiImpact, production, coordinates, sunroof)
      storedUsage == GetObj(utilityBill.extractedData, "monthlyUsage")
      monthlyBreakdown ==
        _generateMonthlyBreakdown(solarProduction,
          IF storedUsage # NullObj THEN storedUsage
          ELSE _generateMonthlyUsage(energyUsage * 12),
          electricityRate)
      solarSavings ==
        _calculateSolarSavings(monthlyBreakdown,
          SystemCostDynamic(proposal.extractedData.pricing, systemSize))
  IN [solarSavings |-> solarSavings,
      monthlyBreakdown |-> monthlyBreakdown,
      solarPotential |-> solarPotential,
      solarProduction |-> solarProduction,
      srecIncentives |-> srecIncentives,
      environmentalImpact |-> environmentalImpact,
      status |-> "completed"]

\* ---- part_011 billing helpers: null for a falsy argument
calculateUtilityBill(energyUsage, rate) ==
  IF ~Truthy(energyUsage) \/ ~Truthy(rate) THEN Null ELSE energyUsage * rate

calculateUtilityBillWithSolar(energyUsage, solarProduction, rate) ==
  IF ~Truthy(energyUsage) \/ ~Truthy(solarProduction) \/ ~Truthy(rate) THEN Null
  ELSE Max(0, energyUsage - solarProduction) * rate

calculateSavings(billWithoutSolar, billWithSolar) ==
  IF ~Truthy(billWithoutSolar) \/ billWithSolar = Null THEN Null
  ELSE billWithoutSolar - billWithSolar

\* ---- part_008 generateResults, lines 156-300: the update written on success
AnalyseBasic(proposal, utilityBill, location, sunroof, pvWatts, srec) ==
  LET systemSize == proposal.extractedData.systemSize
      estimatedProduction == proposal.extractedData.estimatedProduction
      energyUsage == utilityBill.extractedData.energyUsage
      electricityRate == utilityBill.extractedData.rate
      coordinates == location.coordinates
      state == location.state
      sunroofResult ==
        IF HasCoordinates(coordinates)
        THEN getSolarPotential(coordinates.latitude, coordinates.longitude, sunroof)
        ELSE [success |-> FALSE, data |-> NullObj]
      solarPotential == IF sunroofResult.success THEN sunroofResult.data ELSE NullObj
      solarProduction ==
        IF Truthy(systemSize) /\ HasCoordinates(coordinates)
        THEN formatSolarProduction(
               getSolarProduction(systemSize, coordinates.latitude,
                                  coordinates.longitude, pvWatts).data)
        ELSE NullObj
      simulated == IF solarProduction # NullObj THEN solarProduction.annualProduction
                   ELSE Null
      annualProduction == IF Truthy(estimatedProduction) THEN estimatedProduction
                          ELSE simulated
      srecResult ==
        IF state # NoState /\ Truthy(systemSize) /\ Truthy(annualProduction)
        THEN getSrecIncentives(state, systemSize, annualProduction, srec)
        ELSE [success |-> FALSE, data |-> NullObj]
      srecIncentives == IF srecResult.success THEN srecResult.data ELSE NullObj
      computes == Truthy(energyUsage) /\ Truthy(electricityRate) /\ Truthy(annualProduction)
      monthlyUsage == estimateMonthlyEnergyUsage(energyUsage * 12)
      monthlyProduction == IF solarProduction # NullObj
                           THEN solarProduction.monthlyProduction
                           ELSE estimateMonthlyEnergyUsage(annualProduction)
      monthlyBreakdown ==
        IF computes /\ monthlyUsage # NullObj /\ monthlyProduction # NullObj
        THEN [m \in MonthIdx |->
                LET usage == monthlyUsage[m]
                    production == monthlyProduction[m]
                    originalBill == calculateUtilityBill(usage, electricityRate)
                    newBill == calculateUtilityBillWithSolar(usage, production,
                                                             electricityRate)
                IN [month |-> m,
                    solarProduction |-> production,
                    gridConsumption |-> Max(0, usage - production),
                    utilityBillWithSolar |-> newBill,
                    utilityBillWithoutSolar |-> originalBill,
                    savings |-> calculateSavings(originalBill, newBill)]]
        ELSE <<>>
      annualBillWithoutSolar == energyUsage * 12 * electricityRate
      annualBillWithSolar ==
        Max(0, (energyUsage * 12 - annualProduction) * electricityRate)
      annualSavings == annualBillWithoutSolar - annualBillWithSolar
      systemCost == OrElse(Get(proposal.extractedData.pricing, "netCost"), 0)
      solarSavings ==
        IF computes
        THEN [monthlySavings |-> RoundDiv(annualSavings, 12),
              annualSavings |-> annualSavings,
              twentyYearSavings |-> annualSavings * 20,
              paybackPeriod |-> IF systemCost > 0
                                THEN RoundDiv(systemCost * 1000, annualSavings)
                                ELSE 0]
        ELSE NullObj
  IN [solarSavings |-> solarSavings,
      monthlyBreakdown |-> monthlyBreakdown,
      solarPotential |->
        IF solarPotential # NullObj
        THEN [roofSegmentSummary |-> GetObj(solarPotential, "roofSegmentStats"),
              solarPotential |->
                Get(GetObj(solarPotential, "solarPotential"), "yearlyEnergyDcKwh"),
              panelCapacityWatts |->
                Get(GetObj(solarPotential, "solarPotential"), "panelCapacityWatts"),
              carbonOffsetFactorKgPerMwh |->
                Get(GetObj(solarPotential, "solarPotential"),
                    "carbonOffsetFactorKgPerMwh")]
        ELSE NullObj,
      solarProduction |->
        IF solarProduction # NullObj
        THEN [annualProduction |-> solarProduction.annualProduction,
              monthlyProduction |-> solarProduction.monthlyProduction,
              capacityFactor |-> solarProduction.capacityFactor]
        ELSE NullObj,
      srecIncentives |->
        IF srecIncentives # NullObj
        THEN [srecEligible |-> Get(srecIncentives, "srec_eligible"),
              srecRate |-> Get(srecIncentives, "srec_rate"),
              estimatedAnnualSrecValue |->
                Get(srecIncentives, "estimated_annual_srec_value"),
              srecProgramDetails |-> Get(srecIncentives, "srec_program_details")]
        ELSE NullObj,
      status |-> "completed"]

\* ------------------------------------------------------------ the store
\* Result.create({user, proposal, utilityBill, status: 'pending'}); writes is the
\* history of who wrote the record: the id of the result the writing
\* generateResults call created, or EnvWriter for getResultEnvironmentalImpact
EnvWriter == 0

NewResult(userId, proposalId, utilityBillId, id) ==
  [user |-> userId, proposal |-> proposalId, utilityBill |-> utilityBillId,
   status |-> "pending", processingErrors |-> <<>>,
   solarSavings |-> NullObj, monthlyBreakdown |-> NullObj,
   solarPotential |-> NullObj, solarProduction |-> NullObj,
   srecIncentives |-> NullObj, environmentalImpact |-> NullObj,
   writes |-> <<id>>, deleted |-> FALSE]

\* findByIdAndUpdate / findOneAndUpdate: the fields of the update replace the stored
Merge(doc, update, writer) ==
  [f \in DOMAIN doc |->
     IF f = "writes" THEN Append(doc.writes, writer)
     ELSE IF f \in DOMAIN update THEN update[f] ELSE doc[f]]

NotFoundMessage == "Proposal or utility bill not found"
TypeErrorMessage == "Cannot read properties of undefined"
LookupMessage == "User lookup failed"
UpdateMessage == "Result update failed"

NoUpdate == NullObj

IdleCall == [pc |-> "idle", user |-> "", proposalId |-> 0, utilityBillId |-> 0,
             locationData |-> NoLocation, resultId |-> 0, analysed |-> FALSE,
             location |-> NoLocation, scenario |-> <<>>, update |-> NoUpdate, error |-> "", success |-> FALSE]

\* ------------------------------------------------------------- requests
\* The requests exercised by the lifecycle specification: a readable proposal,
\* a readable bill and an unreadable bill image, analyses without a request
\* location, every adapter answering
UploadedProposals == { <<TRUE, NullObj, FullProposalMatch, 0>> }

UploadedBills ==
  { <<"pdf", TRUE, NullObj, FullBillMatch, 0>>,
    <<"image", FALSE, NullObj, NoBillMatch, 0>> }

AllOk == <<"ok", "ok", "ok">>

Init ==
  /\ engine \in Engines
  /\ srecImpl \in SrecImpls
  /\ billImpl \in BillImpls
  /\ proposals = <<>>
  /\ utilityBills = <<>>
  /\ results = <<>>
  /\ call = [c \in Calls |-> IdleCall]
  /\ lastParse = NullObj
  /\ lastAdapter = NullObj
  /\ lastEnv = NullObj

\* POST /api/upload/proposal: processProposal and Proposal.create
UploadProposal(userId, in) ==
  /\ Len(proposals) < MaxProposals
  /\ proposals' = Append(proposals, processProposal(userId, in[1], in[2], in[3], in[4]))
  /\ UNCHANGED <<engine, srecImpl, billImpl, utilityBills, results, call,
                 lastParse, lastAdapter, lastEnv>>

\* POST /api/upload/utility-bill: processUtilityBill and UtilityBill.create
UploadUtilityBill(userId, in) ==
  /\ Len(utilityBills) < MaxBills
  /\ utilityBills' = Append(utilityBills,
                       processUtilityBill(userId, in[1], in[2], in[3], in[4], in[5]))
  /\ UNCHANGED <<engine, srecImpl, billImpl, proposals, results, call,
                 lastParse, lastAdapter, lastEnv>>

\* an id that matches no stored document (ids of documents are never reused)
MissingId == 0

\* the ids a client can present: those of stored documents, or one matching nothing
KnownIds(store) == {MissingId} \cup (1..Len(store))

\* generateResults up to its first write: both documents are loaded, a missing one
\* throws, otherwise the pending record is created
GenStart(c, userId, proposalId, utilityBillId, locationData) ==
  /\ call[c].pc = "idle"
  /\ LET found == proposalId \in 1..Len(proposals)
                  /\ utilityBillId \in 1..Len(utilityBills)
         id == Len(results) + 1
         started == [IdleCall EXCEPT !.user = userId, !.proposalId = proposalId,
                                     !.utilityBillId = utilityBillId,
                                     !.locationData = locationData]
     IN IF ~found
        THEN /\ call' = [call EXCEPT ![c] =
                           [started EXCEPT !.pc = "catch", !.error = NotFoundMessage]]
             /\ UNCHANGED results
        ELSE /\ Len(results) < MaxResults
             /\ results' = Append(results,
                                  NewResult(userId, proposalId, utilityBillId, id))
             /\ call' = [call EXCEPT ![c] =
                           [started EXCEPT !.pc = "analyse", !.resultId = id]]
  /\ UNCHANGED <<engine, srecImpl, billImpl, proposals, utilityBills,
                 lastParse, lastAdapter, lastEnv>>

\* generateResults from the field extraction to the computed update: reading a field
\* of a missing extractedData throws, the user lookup may reject, the adapters
\* answer by the scenario
GenAnalyse(c, scenario, aiImpact, rnd, lookupFails) ==
  /\ call[c].pc = "analyse"
  /\ LET me == call[c]
         proposal == proposals[me.proposalId]
         utilityBill == utilityBills[me.utilityBillId]
         location ==
           IF engine = "part_007"
           THEN ResolveLocationDynamic(me.locationData, me.user, rnd)
           ELSE ResolveLocationBasic(me.locationData, me.user)
         update ==
           IF engine = "part_007"
           THEN AnalyseDynamic(proposal, utilityBill, location,
                               scenario[1], scenario[2], scenario[3], aiImpact, rnd)
           ELSE AnalyseBasic(proposal, utilityBill, location,
                             scenario[1], scenario[2], scenario[3])
     IN call' = [call EXCEPT ![c] =
          IF proposal.extractedData = NullObj \/ utilityBill.extractedData = NullObj
          THEN [me EXCEPT !.pc = "catch", !.error = TypeErrorMessage]
          ELSE IF me.locationData = NoLocation /\ lookupFails
          THEN [me EXCEPT !.pc = "catch", !.error = LookupMessage]
          ELSE [me EXCEPT !.pc = "finalize", !.analysed = TRUE, !.location = location,
                          !.scenario = scenario, !.update = update]]
  /\ UNCHANGED <<engine, srecImpl, billImpl, proposals, utilityBills, results,
                 lastParse, lastAdapter, lastEnv>>

\* Result.findByIdAndUpdate(result._id, {...six slots, status: 'completed'}); on a
\* record removed in the meantime it resolves to null and writes nothing
GenFinalize(c, updateFails) ==
  /\ call[c].pc = "finalize"
  /\ LET me == call[c]
     IN IF updateFails
        THEN /\ call' = [call EXCEPT ![c] =
                           [me EXCEPT !.pc = "catch", !.error = UpdateMessage]]
             /\ UNCHANGED results
        ELSE /\ results' = IF results[me.resultId].deleted THEN results
                           ELSE [results EXCEPT ![me.resultId] =
                                   Merge(@, me.update, me.resultId)]
             /\ call' = [call EXCEPT ![c] = [me EXCEPT !.pc = "done", !.success = TRUE]]
  /\ UNCHANGED <<engine, srecImpl, billImpl, proposals, utilityBills,
                 lastParse, lastAdapter, lastEnv>>

\* a filter on the user alone
MatchingByUser(me) ==
  { i \in 1..Len(results) : ~results[i].deleted /\ results[i].user = me.user }

\* the records Result.findOneAndUpdate({user, proposal, utilityBill}, ...) can pick
Matching(me) ==
  { i \in 1..Len(results) :
      /\ ~results[i].deleted
      /\ results[i].user = me.user
      /\ results[i].proposal = me.proposalId
      /\ results[i].utilityBill = me.utilityBillId }

\* the catch block: part_007 logs and answers; part_008 first marks one record
\* matching the (user, proposal, utilityBill) triple as failed
GenCatch(c) ==
  /\ call[c].pc = "catch"
  /\ LET me == call[c]
     IN /\ IF engine = "part_008" /\ Matching(me) # {}
           THEN \E i \in Matching(me) :
                  results' = [results EXCEPT ![i] =
                     Merge(@, [status |-> "error", processingErrors |-> <<me.error>>],
                           me.resultId)]
           ELSE UNCHANGED results
        /\ call' = [call EXCEPT ![c] = [me EXCEPT !.pc = "done", !.success = FALSE]]
  /\ UNCHANGED <<engine, srecImpl, billImpl, proposals, utilityBills,
                 lastParse, lastAdapter, lastEnv>>

\* the controller answers and the request is over
GenReturn(c) ==
  /\ call[c].pc = "done"
  /\ call' = [call EXCEPT ![c] = IdleCall]
  /\ UNCHANGED <<engine, srecImpl, billImpl, proposals, utilityBills, results,
                 lastParse, lastAdapter, lastEnv>>

\* POST /api/results/generate, the controller's answer to the service response:
\* 500 with the service's message when success is false, 201 otherwise
generateResultsController(resultsResponse) ==
  IF ~resultsResponse.success THEN 500 ELSE 201

\* {...openAiEnvironmentalData, estimatedProduction}
WithProduction(impact, estimatedProduction) ==
  [f \in DOMAIN impact \cup {"estimatedProduction"} |->
     IF f = "estimatedProduction" THEN estimatedProduction ELSE impact[f]]

\* the fallback figures of getResultEnvironmentalImpact (no estimatedProduction member)
ControllerImpact(estimatedProduction) ==
  LET full == SystemImpact(estimatedProduction, DefaultCarbonFactor)
  IN [f \in DOMAIN full \ {"estimatedProduction"} |-> full[f]]

\* Result.findById(resultId) finds a document
Stored(resultId) == resultId \in 1..Len(results) /\ ~results[resultId].deleted

\* what the last request on a result answered, and to whom
EnvResponse(requester, resultId, status, dataSource) ==
  [operation |-> "getResultEnvironmentalImpact", requester |-> requester,
   resultId |-> resultId, status |-> status, dataSource |-> dataSource]

\* GET /api/environmental/results/:resultId
GetResultEnvironmentalImpact(requester, resultId, aiImpact) ==
  /\ IF ~Stored(resultId)
     THEN /\ lastEnv' = EnvResponse(requester, resultId, 404, "")
          /\ UNCHANGED results
     ELSE IF results[resultId].environmentalImpact # NullObj
     THEN /\ lastEnv' = EnvResponse(requester, resultId, 200,
                                    results[resultId].environmentalImpact.dataSource)
          /\ UNCHANGED results
     ELSE LET proposal == proposals[results[resultId].proposal]
              systemSize == proposal.extractedData.systemSize
              estimatedProduction ==
                OrElse(proposal.extractedData.estimatedProduction,
                       systemSize * BaseAnnualProduction)
              environmentalImpact ==
                IF aiImpact # NullObj THEN WithProduction(aiImpact, estimatedProduction)
                ELSE ControllerImpact(estimatedProduction)
          IN IF ~Truthy(systemSize)
             THEN /\ lastEnv' = EnvResponse(requester, resultId, 400, "")
                  /\ UNCHANGED results
             ELSE /\ results' = [results EXCEPT ![resultId] =
                        Merge(@, [environmentalImpact |-> environmentalImpact], EnvWriter)]
                  /\ lastEnv' = EnvResponse(requester, resultId, 200,
                                            environmentalImpact.dataSource)
  /\ UNCHANGED <<engine, srecImpl, billImpl, proposals, utilityBills, call,
                 lastParse, lastAdapter>>

Next ==
  \/ \E in \in UploadedProposals : UploadProposal("u1", in)
  \/ \E in \in UploadedBills : UploadUtilityBill("u1", in)
  \/ \E c \in Calls, p \in KnownIds(proposals),
        b \in KnownIds(utilityBills) : GenStart(c, "u1", p, b, NoLocation)
  \/ \E c \in Calls, f \in BOOLEAN : GenAnalyse(c, AllOk, NullObj, 0, f)
  \/ \E c \in Calls, f \in BOOLEAN : GenFinalize(c, f)
  \/ \E c \in Calls : GenCatch(c)
  \/ \E c \in Calls : GenReturn(c)
  \/ \E i \in KnownIds(results) : GetResultEnvironmentalImpact("u1", i, NullObj)

Spec == Init /\ [][Next]_vars

\* ---- one analysis on a fresh store, over many documents, locations and
\* adapter outcomes; the store never rejects
AnalysedProposals ==
  { <<TRUE, NullObj, FullProposalMatch, 0>>,
    <<TRUE, NullObj, NoProposalMatch, 1>>,
    <<TRUE, NullObj, [FullProposalMatch EXCEPT !.pricing = PartialPricing], 0>> }

AnalysedBills ==
  { <<"pdf", TRUE, NullObj, FullBillMatch, 0>>,
    <<"pdf", TRUE, NullObj, NoBillMatch, 0>>,
    <<"pdf", TRUE, NullObj, [FullBillMatch EXCEPT !.rate = Null, !.totalAmount = Null], 0>>,
    <<"image", TRUE, NullObj, FullBillMatch, 0>>,
    <<"image", TRUE, NullObj, NoBillMatch, 0>>,
    <<"image", TRUE, NullObj, [FullBillMatch EXCEPT !.energyUsage = Null], 0>>,
    <<"image", FALSE, NullObj, NoBillMatch, 0>> }

\* every adapter answering, or exactly one of them not
OutcomeTriples ==
  { t \in Outcomes \X Outcomes \X Outcomes :
      Cardinality({k \in 1..3 : t[k] # "ok"}) <= 1 }

NextAnalysis ==
  \/ \E u \in Users, in \in AnalysedProposals : UploadProposal(u, in)
  \/ \E u \in Users, in \in AnalysedBills : UploadUtilityBill(u, in)
  \/ \E u \in Users, p \in 1..Len(proposals), b \in 1..Len(utilityBills),
        l \in {NoLocation} \cup Locations :
        results = <<>> /\ GenStart("g1", u, p, b, l)
  \/ \E s \in OutcomeTriples, r \in Rand : GenAnalyse("g1", s, NullObj, r, FALSE)
  \/ \E a \in AiImpactAnswers \ {NullObj} : GenAnalyse("g1", AllOk, a, 0, FALSE)
  \/ GenFinalize("g1", FALSE)
  \/ GenCatch("g1")
  \/ GenReturn("g1")

SpecAnalysis == Init /\ [][NextAnalysis]_vars

\* ---- the parsers and the bill intake applied to every text and AI answer;
\* lastParse keeps the operation, what it was given and what it produced
ParseProposal(textOk, openAiData, text, rnd) ==
  /\ lastParse' = [operation |-> "parseProposalPdf", textOk |-> textOk,
                   openAiData |-> openAiData, text |-> text,
                   result |-> parseProposalPdf(textOk, openAiData, text, rnd)]
  /\ UNCHANGED <<engine, srecImpl, billImpl, proposals, utilityBills, results, call,
                 lastAdapter, lastEnv>>

ParseUtilityBill(textOk, openAiData, text, rnd) ==
  /\ lastParse' = [operation |-> "parseUtilityBillPdf", textOk |-> textOk,
                   openAiData |-> openAiData, text |-> text,
                   result |-> parseUtilityBillPdf(textOk, openAiData, text, rnd)]
  /\ UNCHANGED <<engine, srecImpl, billImpl, proposals, utilityBills, results, call,
                 lastAdapter, lastEnv>>

\* POST /api/upload/utility-bill, remembering what the file held
IntakeUtilityBill(userId, fileType, textOk, openAiData, text, rnd) ==
  /\ Len(utilityBills) < MaxBills
  /\ utilityBills' = Append(utilityBills,
       processUtilityBill(userId, fileType, textOk, openAiData, text, rnd))
  /\ lastParse' = [operation |-> "processUtilityBill", textOk |-> textOk,
                   openAiData |-> openAiData, text |-> text,
                   result |-> [fileType |-> fileType, id |-> Len(utilityBills) + 1]]
  /\ UNCHANGED <<engine, srecImpl, billImpl, proposals, results, call,
                 lastAdapter, lastEnv>>

NextParse ==
  \/ \E ok \in BOOLEAN, ai \in AiProposalAnswers, t \in ProposalTexts, r \in Rand :
        ParseProposal(ok, ai, t, r)
  \/ \E ok \in BOOLEAN, ai \in AiBillAnswers, t \in BillTexts, r \in Rand :
        ParseUtilityBill(ok, ai, t, r)
  \/ \E ft \in FileTypes, ok \in BOOLEAN, t \in {NoBillMatch, FullBillMatch} :
        IntakeUtilityBill("u1", ft, ok, NullObj, t, 0)

SpecParse == Init /\ [][NextParse]_vars

\* ---- the upload endpoints storing what the parsers produced
\* the proposal texts handed to the intake: those of the parsers, and one whose
\* pricing patterns match the total cost alone
IntakeProposalTexts ==
  ProposalTexts \cup { [FullProposalMatch EXCEPT !.pricing = PartialPricing] }

\* POST /api/upload/proposal, remembering what the file held
IntakeProposal(userId, textOk, openAiData, text, rnd) ==
  /\ Len(proposals) < MaxProposals
  /\ proposals' = Append(proposals,
       processProposal(userId, textOk, openAiData, text, rnd))
  /\ lastParse' = [operation |-> "processProposal", textOk |-> textOk,
                   openAiData |-> openAiData, text |-> text,
                   result |-> [id |-> Len(proposals) + 1]]
  /\ UNCHANGED <<engine, srecImpl, billImpl, utilityBills, results, call,
                 lastAdapter, lastEnv>>

\* the files POST /api/upload is exercised with: a readable or an unreadable
\* proposal, a readable bill PDF or an unreadable bill image
BothProposals == { <<TRUE, NullObj, FullProposalMatch, 0>>,
                   <<FALSE, NullObj, NoProposalMatch, 0>> }
BothBills == { <<"pdf", TRUE, NullObj, FullBillMatch, 0>>,
               <<"image", FALSE, NullObj, NoBillMatch, 0>> }

\* POST /api/upload: processProposal, then processUtilityBill; 207 when either
\* reports failure, otherwise generateResults is entered with the two new ids
\* (both exist, so the pending result is created)
UploadFiles(c, userId, pin, bin, locationData) ==
  /\ Len(proposals) < MaxProposals
  /\ Len(utilityBills) < MaxBills
  /\ Len(results) < MaxResults
  /\ call[c].pc = "idle"
  /\ LET proposal == processProposal(userId, pin[1], pin[2], pin[3], pin[4])
         utilityBill == processUtilityBill(userId, bin[1], bin[2], bin[3], bin[4], bin[5])
         proposalId == Len(proposals) + 1
         utilityBillId == Len(utilityBills) + 1
         id == Len(results) + 1
         bothOk == proposal.status = "processed" /\ utilityBill.status = "processed"
     IN /\ proposals' = Append(proposals, proposal)
        /\ utilityBills' = Append(utilityBills, utilityBill)
        /\ IF bothOk
           THEN /\ results' = Append(results,
                                     NewResult(userId, proposalId, utilityBillId, id))
                /\ call' = [call EXCEPT ![c] =
                     [IdleCall EXCEPT !.pc = "analyse", !.user = userId,
                                      !.proposalId = proposalId,
                                      !.utilityBillId = utilityBillId,
                                      !.locationData = locationData,
                                      !.resultId = id]]
           ELSE UNCHANGED <<results, call>>
        /\ lastParse' = [operation |-> "uploadFiles", textOk |-> pin[1],
                         openAiData |-> pin[2], text |-> pin[3],
                         result |-> [id |-> proposalId, utilityBillId |-> utilityBillId,
                                     billTextOk |-> bin[2],
                                     status |-> IF bothOk THEN 200 ELSE 207]]
  /\ UNCHANGED <<engine, srecImpl, billImpl, lastAdapter, lastEnv>>

\* POST /api/upload, the 200 answer built from generateResults' response
UploadFilesResponse(analysisResult) ==
  [resultId |-> IF analysisResult.success THEN analysisResult.resultId ELSE Null,
   analysisStatus |-> IF analysisResult.success THEN "completed" ELSE "pending"]

NextIntake ==
  \/ \E ok \in BOOLEAN, ai \in AiProposalAnswers, t \in IntakeProposalTexts, r \in Rand :
        IntakeProposal("u1", ok, ai, t, r)
  \/ \E ft \in FileTypes, ok \in BOOLEAN, t \in {NoBillMatch, FullBillMatch} :
        IntakeUtilityBill("u1", ft, ok, NullObj, t, 0)
  \/ \E pin \in BothProposals, bin \in BothBills :
        UploadFiles("g1", "u1", pin, bin, NoLocation)
  \/ GenAnalyse("g1", AllOk, NullObj, 0, FALSE)
  \/ \E f \in BOOLEAN : GenFinalize("g1", f)
  \/ GenCatch("g1")
  \/ GenReturn("g1")

SpecIntake == Init /\ [][NextIntake]_vars

\* ---- requests on stored results by several requesters
\* req.user: the two users and an administrator
Requesters == Users \cup {"admin"}

\* req.user.isAdmin
IsAdmin(requester) == requester = "admin"

\* no authorization at all
MayDeleteAnyone(requester, owner) == TRUE

\* result.user.toString() === req.user._id.toString() || req.user.isAdmin
MayDelete(requester, owner) == requester = owner \/ IsAdmin(requester)

DeleteResponse(requester, resultId, status) ==
  [operation |-> "deleteResult", requester |-> requester, resultId |-> resultId,
   status |-> status, dataSource |-> ""]

\* DELETE /api/results/:resultId; removeOk is whether result.remove() resolves
DeleteResult(requester, resultId, removeOk) ==
  /\ IF ~Stored(resultId)
     THEN /\ lastEnv' = DeleteResponse(requester, resultId, 404)
          /\ UNCHANGED results
     ELSE IF ~MayDelete(requester, results[resultId].user)
     THEN /\ lastEnv' = DeleteResponse(requester, resultId, 403)
          /\ UNCHANGED results
     ELSE IF ~removeOk
     THEN /\ lastEnv' = DeleteResponse(requester, resultId, 500)
          /\ UNCHANGED results
     ELSE /\ results' = [results EXCEPT ![resultId].deleted = TRUE]
          /\ lastEnv' = DeleteResponse(requester, resultId, 200)
  /\ UNCHANGED <<engine, srecImpl, billImpl, proposals, utilityBills, call,
                 lastParse, lastAdapter>>

NextAccess ==
  \/ \E in \in UploadedProposals : UploadProposal("u1", in)
  \/ UploadUtilityBill("u1", <<"pdf", TRUE, NullObj, FullBillMatch, 0>>)
  \/ \E u \in Users, p \in KnownIds(proposals), b \in KnownIds(utilityBills) :
        GenStart("g1", u, p, b, NoLocation)
  \/ GenAnalyse("g1", AllOk, NullObj, 0, FALSE)
  \/ GenFinalize("g1", FALSE)
  \/ GenCatch("g1")
  \/ GenReturn("g1")
  \/ \E r \in Requesters, i \in KnownIds(results), ok \in BOOLEAN :
        DeleteResult(r, i, ok)
  \/ \E r \in Users, i \in KnownIds(results) :
        GetResultEnvironmentalImpact(r, i, NullObj)

\* the deployment with the masking incentive service and the tiered bill parser
InitAccess == Init /\ srecImpl = "srecTradeService.js" /\ billImpl = "part_011"

SpecAccess == InitAccess /\ [][NextAccess]_vars

\* ---- repeated analyses of the same documents, with and without a request
\* location, by a user with a profile location and by one without
\* the request locations tried: none, a full one, and one without coordinates
RequestLocations ==
  {NoLocation} \cup {l \in Locations : l.state \in {"NJ", NoState}}

NextLocation ==
  \/ \E in \in UploadedProposals : UploadProposal("u1", in)
  \/ \E in \in UploadedBills : UploadUtilityBill("u1", in)
  \/ \E c \in Calls, u \in Users, l \in RequestLocations :
        GenStart(c, u, Len(proposals), Len(utilityBills), l)
  \/ \E c \in Calls, r \in Rand : GenAnalyse(c, AllOk, NullObj, r, FALSE)
  \/ \E c \in Calls : GenFinalize(c, FALSE)
  \/ \E c \in Calls : GenCatch(c)
  \/ \E c \in Calls : GenReturn(c)

SpecLocation == InitAccess /\ [][NextLocation]_vars

\* ---- OCR of an uploaded image (extractTextFromImage) called on its own
\* the uploaded images
ImagePaths == {<<"uploads", "a.png">>, <<"uploads", "b.jpg">>, <<"uploads", "c.png">>}

\* preprocessImage: the output path, next to the image and named after it, when
\* sharp writes the file; a throw otherwise
preprocessImage(imagePath, sharpOk) ==
  IF sharpOk THEN <<imagePath[1], "preprocessed-", imagePath[2]>> ELSE Thrown

\* extractTextFromImage: preprocess, create the worker, recognize, terminate the
\* worker, unlink the preprocessed file, return the text; a throw of any step
\* goes to the catch block, which logs and rethrows.  lastAdapter keeps the
\* outcome and the preprocessed files that exist afterwards.
extractTextFromImage(imagePath, sharpOk, workerOk, recognizeOk, terminateOk) ==
  LET before == IF "files" \in DOMAIN lastAdapter THEN lastAdapter.files ELSE {}
      preprocessedPath == preprocessImage(imagePath, sharpOk)
      written == IF sharpOk THEN before \cup {preprocessedPath} ELSE before
      unlinked == sharpOk /\ workerOk /\ recognizeOk /\ terminateOk
  IN /\ lastAdapter' =
          [adapter |-> "extractTextFromImage",
           imagePath |-> imagePath,
           preprocessed |-> sharpOk,
           preprocessedPath |-> preprocessedPath,
           outcome |-> IF unlinked THEN "returned" ELSE "thrown",
           files |-> IF unlinked THEN written \ {preprocessedPath} ELSE written]
     /\ UNCHANGED <<engine, srecImpl, billImpl, proposals, utilityBills, results, call,
                    lastParse, lastEnv>>

NextOcr ==
  \E imagePath \in ImagePaths, sharpOk, workerOk, recognizeOk, terminateOk \in BOOLEAN :
    extractTextFromImage(imagePath, sharpOk, workerOk, recognizeOk, terminateOk)

SpecOcr == Init /\ [][NextOcr]_vars

\* ---- each adapter called on its own
CallSunroof(latitude, longitude, outcome) ==
  /\ lastAdapter' = [adapter |-> "getSolarPotential", outcome |-> outcome,
                     response |-> getSolarPotential(latitude, longitude, outcome)]
  /\ UNCHANGED <<engine, srecImpl, billImpl, proposals, utilityBills, results, call,
                 lastParse, lastEnv>>

CallPvWatts(systemCapacity, latitude, longitude, outcome) ==
  /\ lastAdapter' = [adapter |-> "getSolarProduction", outcome |-> outcome,
                     response |-> getSolarProduction(systemCapacity, latitude,
                                                     longitude, outcome)]
  /\ UNCHANGED <<engine, srecImpl, billImpl, proposals, utilityBills, results, call,
                 lastParse, lastEnv>>

CallSrec(state, systemCapacity, annualProduction, outcome) ==
  /\ lastAdapter' = [adapter |-> "getSrecIncentives", outcome |-> outcome,
                     response |-> getSrecIncentives(state, systemCapacity,
                                                    annualProduction, outcome)]
  /\ UNCHANGED <<engine, srecImpl, billImpl, proposals, utilityBills, results, call,
                 lastParse, lastEnv>>

Latitudes == {3000, 4000}
Longitudes == {7500, 9700}
Capacities == {SampleSystemSize, 10}

NextAdapters ==
  \/ \E lat \in Latitudes, lon \in Longitudes, o \in Outcomes : CallSunroof(lat, lon, o)
  \/ \E k \in Capacities, lat \in Latitudes, lon \in Longitudes, o \in Outcomes :
        CallPvWatts(k, lat, lon, o)
  \/ \E st \in States, k \in Capacities, pr \in {Null, SampleProduction},
        o \in Outcomes : CallSrec(st, k, pr, o)

SpecAdapters == Init /\ [][NextAdapters]_vars

\* ---- the AI adapter (OpenAiService) called on its own
\* What the chat completion does: the request resolves or rejects; a resolved
\* response holds JSON, text that is not JSON, or no choices at all
AiRequests == {"ok", "fail"}
AiContents == {"json", "notjson", "nochoices"}

\* an audit-log writer that lets a failed write escape
logExtractionRethrows(writeOk) == IF writeOk THEN "logged" ELSE "thrown"

\* logExtraction: a failed fs.writeFileSync is caught and logged, nothing escapes
logExtraction(writeOk) == IF writeOk THEN "logged" ELSE "swallowed"

Escapes == [escapes |-> TRUE]
Returns(value) == [escapes |-> FALSE, value |-> value]

\* the inner try / catch around JSON.parse and the result log: reading
\* response.choices[0].message of a response without choices throws in the try and
\* again while the catch builds its log entry
AiParseResponse(content, answer, writeOk) ==
  IF content = "nochoices" THEN Escapes
  ELSE IF content = "notjson"
  THEN (IF logExtraction(writeOk) = "thrown" THEN Escapes ELSE Returns(NullObj))
  ELSE IF logExtraction(writeOk) = "thrown" THEN Escapes
  ELSE Returns(answer)

\* the body shared by the three methods: the outer try, then the outer catch that
\* logs the error and returns null.  logsText is whether the method logs the raw
\* text before the request; argOk is whether the text / proposal data is an object
AiMethod(logsText, isConfigured, argOk, request, content, answer, writeOk) ==
  LET tried ==
        IF ~isConfigured THEN Returns(NullObj)
        ELSE IF ~argOk THEN Escapes
        ELSE IF logsText /\ logExtraction(writeOk) = "thrown" THEN Escapes
        ELSE IF request = "fail" THEN Escapes
        ELSE AiParseResponse(content, answer, writeOk)
  IN IF tried = Escapes
     THEN (IF logExtraction(writeOk) = "thrown" THEN Thrown ELSE NullObj)
     ELSE tried.value

extractProposalData(isConfigured, argOk, request, content, answer, writeOk) ==
  AiMethod(TRUE, isConfigured, argOk, request, content, answer, writeOk)

extractUtilityBillData(isConfigured, argOk, request, content, answer, writeOk) ==
  AiMethod(TRUE, isConfigured, argOk, request, content, answer, writeOk)

calculateEnvironmentalImpact(isConfigured, argOk, request, content, answer, writeOk) ==
  AiMethod(FALSE, isConfigured, argOk, request, content, answer, writeOk)

\* the caller's document id: none, or the id of the stored document
NoDocumentId == <<"", 0>>
DocumentIds == {NoDocumentId, <<"id", 1>>}

\* the correlation ids of the audit-log entries one call writes, in order.  The
\* try block uses documentId || `<prefix>_<random>`; the outer catch of the two
\* extract methods uses documentId || 'unknown', that of the impact calculation
\* passes no id and logExtraction makes up `doc_<random>`.  A failed write
\* leaves no entry.
AiAuditLog(logsText, prefix, isConfigured, argOk, request, content, documentId, rnd, writeOk) ==
  LET docId == IF documentId # NoDocumentId THEN documentId ELSE <<prefix, rnd>>
      catchId == IF documentId # NoDocumentId THEN documentId
                 ELSE IF logsText THEN <<"unknown", 0>> ELSE <<"doc", rnd>>
      attempted ==
        IF ~isConfigured THEN <<>>
        ELSE IF ~argOk THEN <<catchId>>
        ELSE (IF logsText THEN <<docId>> ELSE <<>>)
             \o (IF request = "fail" \/ content = "nochoices"
                 THEN <<catchId>> ELSE <<docId>>)
  IN IF writeOk THEN attempted ELSE <<>>

AiCall(method, isConfigured, argOk, request, content, writeOk, response, log) ==
  /\ lastAdapter' = [adapter |-> method, isConfigured |-> isConfigured,
                     argOk |-> argOk, request |-> request, content |-> content,
                     writeOk |-> writeOk, response |-> response, log |-> log]
  /\ UNCHANGED <<engine, srecImpl, billImpl, proposals, utilityBills, results, call,
                 lastParse, lastEnv>>

CallExtractProposalData(isConfigured, argOk, request, content, answer, documentId, rnd, writeOk) ==
  AiCall("extractProposalData", isConfigured, argOk, request, content, writeOk,
         extractProposalData(isConfigured, argOk, request, content, answer, writeOk),
         AiAuditLog(TRUE, "prop", isConfigured, argOk, request, content, documentId,
                    rnd, writeOk))

CallExtractUtilityBillData(isConfigured, argOk, request, content, answer, documentId, rnd, writeOk) ==
  AiCall("extractUtilityBillData", isConfigured, argOk, request, content, writeOk,
         extractUtilityBillData(isConfigured, argOk, request, content, answer, writeOk),
         AiAuditLog(TRUE, "bill", isConfigured, argOk, request, content, documentId,
                    rnd, writeOk))

CallCalculateEnvironmentalImpact(isConfigured, argOk, request, content, answer, rnd, writeOk) ==
  AiCall("calculateEnvironmentalImpact", isConfigured, argOk, request, content, writeOk,
         calculateEnvironmentalImpact(isConfigured, argOk, request, content, answer,
                                      writeOk),
         AiAuditLog(FALSE, "env", isConfigured, argOk, request, content, NoDocumentId,
                    rnd, writeOk))

NextOpenAi ==
  \/ \E k, a, w \in BOOLEAN, r \in AiRequests, t \in AiContents,
        ans \in AiProposalAnswers \ {NullObj}, d \in DocumentIds, n \in Rand :
        CallExtractProposalData(k, a, r, t, ans, d, n, w)
  \/ \E k, a, w \in BOOLEAN, r \in AiRequests, t \in AiContents,
        ans \in AiBillAnswers \ {NullObj}, d \in DocumentIds, n \in Rand :
        CallExtractUtilityBillData(k, a, r, t, ans, d, n, w)
  \/ \E k, a, w \in BOOLEAN, r \in AiRequests, t \in AiContents, n \in Rand :
        CallCalculateEnvironmentalImpact(k, a, r, t, AiImpact, n, w)

SpecOpenAi == Init /\ [][NextOpenAi]_vars

\* ---------------------------------------------------------------- claims
Terminal(status) == status \in {"completed", "error"}

\* C1: the status of a result record moves only from pending to completed or from
\* pending to error, and a record that is completed or in error never changes
\* status again.
C1_StatusMovesOnce ==
  [][\A i \in 1..Len(results) :
       /\ Terminal(results[i].status) => results'[i].status = results[i].status
       /\ results[i].status = "pending" =>
            results'[i].status \in {"pending", "completed", "error"}]_vars

\* C2: once the pending record exists, a later throw of the same call leaves that
\* record with status error and the thrown message in processingErrors; it is
\* never left pending.
C2_FailureMarksOwnRecord ==
  \A c \in Calls :
    (call[c].pc = "done" /\ ~call[c].success /\ call[c].resultId # 0) =>
      /\ results[call[c].resultId].status = "error"
      /\ results[call[c].resultId].processingErrors = <<call[c].error>>

\* C7: a generateResults call given an id that matches no proposal or no utility
\* bill answers success=false with the not-found message, creates no result
\* record, reaches no adapter and leaves the stored results as they were.
C7_NotFoundTouchesNothing ==
  [][\A c \in Calls :
       (call'[c] # call[c] /\ call'[c].error = NotFoundMessage) =>
          /\ results' = results
          /\ call'[c].pc \in {"catch", "done"}
          /\ call'[c].resultId = 0
          /\ ~call'[c].analysed
          /\ ~call'[c].success]_vars

\* a not-found call has answered under part_008 while the same user has a result
C7_Witness ==
  \E c \in Calls :
    /\ engine = "part_008"
    /\ call[c].pc = "done"
    /\ call[c].error = NotFoundMessage
    /\ \E i \in 1..Len(results) : results[i].user = call[c].user

\* C8: every result record is written exactly twice, at creation and at
\* finalisation, both times by the call that created it; nothing else writes it.
C8_WrittenTwiceByCreator ==
  \A i \in 1..Len(results) :
    /\ \A k \in 1..Len(results[i].writes) : results[i].writes[k] = i
    /\ Len(results[i].writes) <= 2
    /\ (\A c \in Calls : call[c].resultId # i) => Len(results[i].writes) = 2

\* the record a finished call created
Own(c) == results[call[c].resultId]

Slots == {"solarSavings", "monthlyBreakdown", "solarPotential", "solarProduction",
          "srecIncentives", "environmentalImpact"}

\* C3: for every stored proposal and utility bill, whatever fields their extraction
\* left out, and for every location including none, generateResults answers
\* success with a completed record whose six sub-structures are all non-null.
C3_AlwaysCompleteResult ==
  \A c \in Calls :
    (call[c].pc = "done" /\ call[c].error # NotFoundMessage) =>
      /\ call[c].success
      /\ Own(c).status = "completed"
      /\ \A f \in Slots : Own(c)[f] # NullObj

\* the members the result schema declares for an adapter's slot are all present
SolarPotentialComplete(slot) ==
  /\ slot # NullObj
  /\ {"roofSegmentSummary", "solarPotential", "panelCapacityWatts",
      "carbonOffsetFactorKgPerMwh"} \subseteq DOMAIN slot
  /\ slot.roofSegmentSummary # NullObj
  /\ slot.solarPotential # Null
  /\ slot.panelCapacityWatts # Null
  /\ slot.carbonOffsetFactorKgPerMwh # Null

SolarProductionComplete(slot) ==
  /\ slot # NullObj
  /\ {"annualProduction", "monthlyProduction", "capacityFactor"} \subseteq DOMAIN slot
  /\ slot.annualProduction # Null
  /\ slot.capacityFactor # Null

SrecIncentivesComplete(slot) ==
  /\ slot # NullObj
  /\ {"srecEligible", "srecRate", "estimatedAnnualSrecValue",
      "srecProgramDetails"} \subseteq DOMAIN slot
  /\ slot.srecRate # Null
  /\ slot.estimatedAnnualSrecValue # Null

Failed(outcome) == outcome \in {"fail", "nokey"}

\* the analysed documents are complete and the request carries a full location,
\* so that every adapter is invoked
FullInputs(c) ==
  /\ proposals[call[c].proposalId].extractedData.systemSize = SampleSystemSize
  /\ utilityBills[call[c].utilityBillId].extractedData # NullObj
  /\ utilityBills[call[c].utilityBillId].extractedData.energyUsage = SampleUsage
  /\ utilityBills[call[c].utilityBillId].extractedData.rate = SampleRateCents
  /\ call[c].locationData # NoLocation
  /\ HasCoordinates(call[c].locationData.coordinates)
  /\ call[c].locationData.state # NoState

\* C4: when one adapter fails during generateResults (request failure or missing
\* credential), the call still answers success with a completed record, and the
\* slot of the failed adapter holds every member the schema declares for it.
C4_AdapterFailureStillComplete ==
  \A c \in Calls :
    (call[c].pc = "done" /\ call[c].analysed /\ FullInputs(c)) =>
      /\ Failed(call[c].scenario[1]) =>
           call[c].success /\ Own(c).status = "completed"
           /\ SolarPotentialComplete(Own(c).solarPotential)
      /\ Failed(call[c].scenario[2]) =>
           call[c].success /\ Own(c).status = "completed"
           /\ SolarProductionComplete(Own(c).solarProduction)
      /\ Failed(call[c].scenario[3]) =>
           call[c].success /\ Own(c).status = "completed"
           /\ SrecIncentivesComplete(Own(c).srecIncentives)

\* C6: the srecIncentives slot of a completed record has srecEligible, srecRate,
\* estimatedAnnualSrecValue and srecProgramDetails defined, whether the values
\* came from the incentive service (live or mock) or from the engine's generator.
C6_SrecSlotShape ==
  \A c \in Calls :
    (call[c].pc = "done" /\ call[c].success /\ call[c].scenario[3] # "malformed"
       /\ Own(c).srecIncentives # NullObj) =>
      SrecIncentivesComplete(Own(c).srecIncentives)

\* C5: each adapter called on its own masks a failed live request or a missing
\* credential: it answers success=true with its offline data, never success=false.
C5_AdaptersMaskFailure ==
  (lastAdapter # NullObj /\ Failed(lastAdapter.outcome)) =>
    /\ lastAdapter.response.success
    /\ lastAdapter.response.data # NullObj
    /\ lastAdapter.response.data # Malformed

Tiers == {"openai", "pattern-extraction", "fallback-generation"}

PrimaryField(operation) ==
  IF operation = "parseProposalPdf" THEN "systemSize" ELSE "energyUsage"

\* the highest tier that supplied the primary field of the last parse
SupplyingTier ==
  LET f == PrimaryField(lastParse.operation)
  IN IF lastParse.textOk /\ lastParse.openAiData # NullObj
        /\ Truthy(lastParse.openAiData[f])
     THEN "openai"
     ELSE IF lastParse.textOk /\ lastParse.openAiData = NullObj
             /\ Truthy(lastParse.text[f])
     THEN "pattern-extraction"
     ELSE "fallback-generation"

\* C9: every result of parseProposalPdf and parseUtilityBillPdf carries one
\* dataSource among openai, pattern-extraction and fallback-generation, naming the
\* highest tier that supplied the primary field (systemSize, energyUsage): all
\* synthesized means fallback-generation, an AI object with a null primary field
\* is not tagged openai.
C9_DataSourceNamesSupplier ==
  (lastParse # NullObj
     /\ lastParse.operation \in {"parseProposalPdf", "parseUtilityBillPdf"}) =>
    /\ "dataSource" \in DOMAIN lastParse.result
    /\ lastParse.result.dataSource \in Tiers
    /\ lastParse.result.dataSource = SupplyingTier

BillFields == {"utilityCompany", "billingPeriod", "accountNumber", "totalAmount",
               "energyUsage", "rate"}

\* C10: processUtilityBill on an image whose text matches no field pattern stores a
\* record with status processed, every extractedData field non-null and
\* dataSource = fallback-generation.
C10_UnmatchedImageSynthesized ==
  (lastParse # NullObj /\ lastParse.operation = "processUtilityBill"
     /\ lastParse.result.fileType = "image" /\ lastParse.textOk
     /\ lastParse.text = NoBillMatch) =>
    LET stored == utilityBills[lastParse.result.id]
    IN /\ stored.status = "processed"
       /\ \A f \in BillFields : stored.extractedData[f] # Null
       /\ "dataSource" \in DOMAIN stored.extractedData
       /\ stored.extractedData.dataSource = "fallback-generation"

\* the fields whose tier order is followed, per parser
TieredFields(operation) ==
  IF operation = "parseProposalPdf" THEN {"systemSize", "estimatedProduction"}
  ELSE {"energyUsage", "rate"}

\* what the pattern tier finds in the text of the last parse
PatternFound ==
  IF lastParse.operation = "parseProposalPdf" THEN lastParse.text
  ELSE ExtractBillFields(lastParse.text)

\* C11: in parseProposalPdf and in the tiered parseUtilityBillPdf the first
\* non-null value in the order AI, pattern, synthetic wins for each field: a value
\* the AI tier gave is kept, and a field the AI tier left null but the patterns
\* can extract holds the pattern's value, never a synthesized one.
C11_FirstNonNullTierWins ==
  (lastParse # NullObj /\ lastParse.textOk
     /\ (\/ lastParse.operation = "parseProposalPdf"
         \/ lastParse.operation = "parseUtilityBillPdf" /\ billImpl = "part_011")) =>
    \A f \in TieredFields(lastParse.operation) :
      LET aiValue == IF lastParse.openAiData = NullObj THEN Null
                     ELSE lastParse.openAiData[f]
      IN IF aiValue # Null THEN lastParse.result[f] = aiValue
         ELSE PatternFound[f] # Null => lastParse.result[f] = PatternFound[f]

\* C12: extractProposalData, extractUtilityBillData and calculateEnvironmentalImpact
\* never throw to their caller; without a credential, on a rejected request and on
\* a response that is not JSON they return null, also when the audit log cannot
\* be written.
C12_AiAdapterNeverThrows ==
  (lastAdapter # NullObj /\ "isConfigured" \in DOMAIN lastAdapter) =>
    /\ lastAdapter.response # Thrown
    /\ (~lastAdapter.isConfigured \/ lastAdapter.request = "fail"
          \/ lastAdapter.content # "json") => lastAdapter.response = NullObj

\* the request was rejected while the audit log could not be written, and the
\* caller got null
C12_Witness ==
  /\ lastAdapter # NullObj
  /\ "isConfigured" \in DOMAIN lastAdapter
  /\ lastAdapter.adapter = "extractProposalData"
  /\ lastAdapter.isConfigured /\ lastAdapter.argOk
  /\ lastAdapter.request = "fail"
  /\ ~lastAdapter.writeOk
  /\ lastAdapter.response = NullObj

\* C13: every stored proposal with status processed has a non-null systemSize
\* and a pricing object whose totalCost and netCost are present and non-null,
\* whichever tier supplied them.
C13_ProcessedProposalPriced ==
  \A i \in 1..Len(proposals) :
    proposals[i].status = "processed" =>
      /\ proposals[i].extractedData.systemSize # Null
      /\ proposals[i].extractedData.pricing # NullObj
      /\ {"totalCost", "netCost"} \subseteq DOMAIN proposals[i].extractedData.pricing
      /\ proposals[i].extractedData.pricing.totalCost # Null
      /\ proposals[i].extractedData.pricing.netCost # Null


\* C14: a proposal or utility-bill record is first stored with status pending, is
\* then updated exactly once to processed or error, and never changes afterwards.
C14_PendingThenOneUpdate ==
  [][/\ \A i \in 1..Len(proposals') :
          i > Len(proposals) => proposals'[i].status = "pending"
     /\ \A i \in 1..Len(utilityBills') :
          i > Len(utilityBills) => utilityBills'[i].status = "pending"
     /\ \A i \in 1..Len(proposals) :
          /\ proposals[i].status = "pending" =>
               proposals'[i].status \in {"pending", "processed", "error"}
          /\ proposals[i].status # "pending" => proposals'[i] = proposals[i]
     /\ \A i \in 1..Len(utilityBills) :
          /\ utilityBills[i].status = "pending" =>
               utilityBills'[i].status \in {"pending", "processed", "error"}
          /\ utilityBills[i].status # "pending" => utilityBills'[i] = utilityBills[i]]_vars

\* C15: when the text of an uploaded document cannot be extracted, that document's
\* own record is stored with the failure in processingErrors and not as processed
\* with no errors; uploadFiles stores the sibling document all the same.
C15_UnreadableRecordedOnOwnRecord ==
  (lastParse # NullObj) =>
    /\ (lastParse.operation \in {"processProposal", "uploadFiles"} /\ ~lastParse.textOk) =>
         /\ proposals[lastParse.result.id].status = "error"
         /\ proposals[lastParse.result.id].processingErrors # <<>>
    /\ (lastParse.operation = "uploadFiles" /\ ~lastParse.result.billTextOk) =>
         /\ utilityBills[lastParse.result.utilityBillId].status = "error"
         /\ utilityBills[lastParse.result.utilityBillId].processingErrors # <<>>
    /\ lastParse.operation = "uploadFiles" =>
         /\ lastParse.result.id \in 1..Len(proposals)
         /\ lastParse.result.utilityBillId \in 1..Len(utilityBills)


\* C16: deleteResult removes a result record only for its owning user or an
\* administrator; any other requester of a stored record is answered 403 and no
\* stored record changes.
C16_DeleteOnlyByOwnerOrAdmin ==
  [][/\ \A i \in 1..Len(results) :
          (~results[i].deleted /\ results'[i].deleted) =>
             /\ lastEnv'.operation = "deleteResult"
             /\ lastEnv'.resultId = i
             /\ (lastEnv'.requester = results[i].user \/ IsAdmin(lastEnv'.requester))
     /\ (/\ lastEnv' # lastEnv
         /\ lastEnv'.operation = "deleteResult"
         /\ Stored(lastEnv'.resultId)
         /\ lastEnv'.requester # results[lastEnv'.resultId].user
         /\ ~IsAdmin(lastEnv'.requester)) =>
           /\ lastEnv'.status = 403
           /\ results' = results
           /\ proposals' = proposals
           /\ utilityBills' = utilityBills]_vars

\* another user's delete request on a stored record was refused, and a record has
\* been removed by a permitted requester
C16_Witness ==
  /\ lastEnv # NullObj
  /\ lastEnv.operation = "deleteResult"
  /\ lastEnv.status = 403
  /\ Stored(lastEnv.resultId)
  /\ lastEnv.requester # results[lastEnv.resultId].user
  /\ \E i \in 1..Len(results) : results[i].deleted


\* C17: an operation given a proposal, utility-bill or result id by a requester
\* who does not own the referenced record fails as not-found or forbidden:
\* generateResults creates no result from another user's documents, and
\* getResultEnvironmentalImpact answers a non-owner with no data.
C17_OnlyOwnerReachesRecords ==
  /\ \A i \in 1..Len(results) :
       /\ results[i].user = proposals[results[i].proposal].user
       /\ results[i].user = utilityBills[results[i].utilityBill].user
  /\ (/\ lastEnv # NullObj
      /\ lastEnv.operation = "getResultEnvironmentalImpact"
      /\ lastEnv.resultId \in 1..Len(results)
      /\ lastEnv.requester # results[lastEnv.resultId].user) =>
        lastEnv.status \in {403, 404}


\* the service faults that are not a missing document
InternalFaults == {TypeErrorMessage, LookupMessage, UpdateMessage}

\* C18: the answer to a generate request naming a missing proposal or utility bill
\* is a 404/403-class response, never the 500-class response an internal fault
\* gets.
C18_NotFoundDistinctFromFault ==
  \A c \in Calls :
    (call[c].pc = "done" /\ call[c].error = NotFoundMessage) =>
      /\ generateResultsController(call[c]) \in {403, 404}
      /\ \A m \in InternalFaults :
           generateResultsController(call[c]) #
             generateResultsController([success |-> FALSE, error |-> m])


\* the sum of the twelve monthly savings of a breakdown
BreakdownSavings(monthlyBreakdown) ==
  SumSeq([m \in MonthIdx |-> monthlyBreakdown[m].savings])

Abs(x) == IF x < 0 THEN -x ELSE x

\* C19: in every completed result, solarSavings.annualSavings equals the sum of
\* the twelve monthlyBreakdown savings to within 0.01 (one cent).
C19_AnnualEqualsMonthlySum ==
  \A i \in 1..Len(results) :
    (/\ results[i].status = "completed"
     /\ results[i].solarSavings # NullObj
     /\ Len(results[i].monthlyBreakdown) = 12
     /\ \A m \in MonthIdx : results[i].monthlyBreakdown[m].savings # Null) =>
      Abs(results[i].solarSavings.annualSavings
            - BreakdownSavings(results[i].monthlyBreakdown)) <= 1

\* C20: in every monthlyBreakdown entry of every result gridConsumption is not
\* negative, and a month whose production exceeds its usage has gridConsumption 0
\* and utilityBillWithSolar 0 (otherwise gridConsumption is usage less production).
C20_GridConsumptionClamped ==
  \A i \in 1..Len(results) :
    (results[i].status = "completed" /\ Len(results[i].monthlyBreakdown) = 12) =>
      \A m \in MonthIdx :
        LET entry == results[i].monthlyBreakdown[m]
            \* the month's usage, recovered from the bill without solar and the
            \* rate the engine billed with
            rate == OrElse(utilityBills[results[i].utilityBill].extractedData.rate, 15)
            usage == entry.utilityBillWithoutSolar \div rate
        IN /\ entry.gridConsumption >= 0
           /\ entry.utilityBillWithoutSolar # Null
           /\ entry.solarProduction > usage =>
                entry.gridConsumption = 0 /\ entry.utilityBillWithSolar = 0
           /\ entry.solarProduction <= usage =>
                entry.gridConsumption = usage - entry.solarProduction

\* a completed result of part_008 with a month whose production exceeds its usage
\* and a month whose usage exceeds its production
C20_Witness ==
  \E i \in 1..Len(results) :
    /\ engine = "part_008"
    /\ results[i].status = "completed"
    /\ Len(results[i].monthlyBreakdown) = 12
    /\ \E m \in MonthIdx :
         /\ results[i].monthlyBreakdown[m].gridConsumption = 0
         /\ results[i].monthlyBreakdown[m].solarProduction > 0
         /\ results[i].monthlyBreakdown[m].utilityBillWithSolar = 0
    /\ \E m \in MonthIdx : results[i].monthlyBreakdown[m].gridConsumption > 0


\* C21: every completed result with annualSavings > 0 stores a twentyYearSavings
\* strictly greater than twenty times its annualSavings.
C21_TwentyYearExceedsTwentyfold ==
  \A i \in 1..Len(results) :
    (/\ results[i].status = "completed"
     /\ results[i].solarSavings # NullObj
     /\ results[i].solarSavings.annualSavings > 0) =>
      results[i].solarSavings.twentyYearSavings
        > 20 * results[i].solarSavings.annualSavings

\* C22: a completed result's paybackPeriod is never Infinity, NaN or negative; it
\* is null when annualSavings is not positive, and a number computed from a
\* defined system cost otherwise (also when the pricing object has no netCost).
C22_PaybackNullOrFinite ==
  \A i \in 1..Len(results) :
    (results[i].status = "completed" /\ results[i].solarSavings # NullObj) =>
      LET s == results[i].solarSavings
      IN /\ s.paybackPeriod \notin {NaN, Infinity}
         /\ s.annualSavings <= 0 => s.paybackPeriod = Null
         /\ s.annualSavings > 0 => s.paybackPeriod >= 0


\* an incentive record's value is its production in MWh times its rate, to
\* within the rounding of the value to whole dollars
SrecValueMatches(value, annualProduction, rate) ==
  Abs(1000 * value - annualProduction * rate) <= 500

\* C23: incentive data made by either offline generator (the adapter's and the
\* engine's own) for a state outside the eligible set has eligibility false,
\* rate 0, value 0 and a non-empty explanation; for an eligible state the
\* estimated annual value is (annualProduction / 1000) * rate.
C23_OfflineIncentivesByEligibility ==
  \A i \in 1..Len(results) :
    (/\ results[i].status = "completed"
     /\ call["g1"].scenario[3] \in {"fail", "nokey"}
     /\ results[i].srecIncentives \notin {NullObj, Malformed}) =>
      LET s == results[i].srecIncentives
          estimatedProduction ==
            proposals[results[i].proposal].extractedData.estimatedProduction
      IN /\ "srecEligible" \in DOMAIN s =>
              /\ ~s.srecEligible =>
                   /\ s.srecRate = 0
                   /\ s.estimatedAnnualSrecValue = 0
                   /\ s.srecProgramDetails # ""
              /\ (s.srecEligible /\ Truthy(estimatedProduction)) =>
                   SrecValueMatches(s.estimatedAnnualSrecValue, estimatedProduction,
                                    s.srecRate)
         /\ "srec_eligible" \in DOMAIN s =>
              /\ ~s.srec_eligible =>
                   /\ s.srec_rate = 0
                   /\ s.estimated_annual_srec_value = 0
                   /\ s.srec_program_details # ""
              /\ (s.srec_eligible /\ Truthy(s.annual_production_kwh)) =>
                   SrecValueMatches(s.estimated_annual_srec_value,
                                    s.annual_production_kwh, s.srec_rate)


\* C24: the location an analysis resolves is the request's override, else the
\* user's profile location, else one fixed fallback; it always has coordinates,
\* and two analyses for the same user without an override and without a profile
\* location resolve the same coordinates and state.
C24_LocationPrecedenceDeterministic ==
  \A c \in Calls :
    call[c].analysed =>
      /\ call[c].locationData # NoLocation => call[c].location = call[c].locationData
      /\ (call[c].locationData = NoLocation
            /\ UserLocation(call[c].user) # NoLocation) =>
           call[c].location = UserLocation(call[c].user)
      /\ HasCoordinates(call[c].location.coordinates)
      /\ \A d \in Calls :
           (/\ call[d].analysed
            /\ call[d].user = call[c].user
            /\ call[c].locationData = NoLocation
            /\ call[d].locationData = NoLocation
            /\ UserLocation(call[c].user) = NoLocation) =>
             call[d].location = call[c].location


\* C25: once extractTextFromImage has returned or thrown, the preprocessed image
\* file it created before OCR no longer exists.
C25_PreprocessedFileRemoved ==
  ("files" \in DOMAIN lastAdapter /\ lastAdapter.preprocessed) =>
    lastAdapter.preprocessedPath \notin lastAdapter.files


\* C26: the twelve monthly values of the production adapter's offline generator
\* add up to its annual value, to within the per-month rounding (6 kWh in all).
C26_MockMonthlySumsToAnnual ==
  (/\ lastAdapter # NullObj
   /\ lastAdapter.adapter = "getSolarProduction"
   /\ lastAdapter.outcome \in {"nokey", "fail"}) =>
    LET outputs == lastAdapter.response.data.outputs
    IN Abs(SumSeq(outputs.ac_monthly) - outputs.ac_annual) <= 6


\* C27: the environmental impact part_007 stores always names its dataSource and
\* has carbonOffsetLifetime = 25 * carbonOffsetAnnual (to within the rounding of
\* both to hundredths of a ton); when it is system-calculated its carbon factor
\* is the one in the roof-potential adapter's data, and 680 when there is none.
C27_ImpactFactorAndLifetime ==
  \A i \in 1..Len(results) :
    (/\ engine = "part_007"
     /\ results[i].status = "completed"
     /\ call["g1"].pc = "done"
     /\ results[i].environmentalImpact # NullObj) =>
      LET impact == results[i].environmentalImpact
          coordinates == call["g1"].location.coordinates
          adapterData ==
            IF HasCoordinates(coordinates)
            THEN getSolarPotential(coordinates.latitude, coordinates.longitude,
                                   call["g1"].scenario[1]).data
            ELSE NullObj
          adapterFactor ==
            Get(GetObj(adapterData, "solarPotential"), "carbonOffsetFactorKgPerMwh")
      IN /\ impact.dataSource \in {"openai", "system-calculated"}
         /\ Abs(impact.carbonOffsetLifetime - 25 * impact.carbonOffsetAnnual) <= 13
         /\ impact.dataSource = "system-calculated" =>
              impact.carbonOffsetFactorKgPerMwh
                = OrElse(adapterFactor, DefaultCarbonFactor)


\* C28: every call of extractProposalData or extractUtilityBillData writes at
\* least one audit-log entry, whatever its outcome, and all the entries of the
\* call carry one and the same correlation identifier.
C28_AuditEntryWithOneIdPerCall ==
  (/\ lastAdapter # NullObj
   /\ lastAdapter.adapter \in {"extractProposalData", "extractUtilityBillData"}) =>
    /\ Len(lastAdapter.log) >= 1
    /\ \A m, n \in 1..Len(lastAdapter.log) : lastAdapter.log[m] = lastAdapter.log[n]


\* C29: uploadFiles answers 207 and creates no result record when either
\* document failed to process; when result generation was attempted, the
\* analysisStatus of the answer is the stored status of the record it created.
C29_UploadStatusMatchesRecord ==
  /\ (lastParse # NullObj /\ lastParse.operation = "uploadFiles"
        /\ lastParse.result.status = 207) =>
       \A i \in 1..Len(results) :
         results[i].proposal # lastParse.result.id
  /\ (call["g1"].pc = "done" /\ Stored(call["g1"].resultId)) =>
       UploadFilesResponse(call["g1"]).analysisStatus
         = results[call["g1"].resultId].status


\* C30: the two offline SREC generators give the same eligibility verdict for
\* every state, system size and annual production: the adapter's mock generator
\* and the engine's own fallback generator.
C30_OfflineGeneratorsAgree ==
  (/\ lastAdapter # NullObj
   /\ lastAdapter.adapter = "getSrecIncentives"
   /\ lastAdapter.outcome \in {"nokey", "fail"}) =>
    LET mock == lastAdapter.response.data
    IN mock.srec_eligible = EngineSrecEligible(mock.state)

====
